---- MODULE Spec2Model ----
(***************************************************************************)
(* bluepairy: the object registry (Bluepairy::Adapters / Devices), the     *)
(* property decoder (Adapter/Device::onPropertiesChanged), the message     *)
(* handlers of Bluepairy::readWrite and the device filters.                *)
(*                                                                         *)
(* Records are heap objects held through std::shared_ptr: an object has an *)
(* identity (its address, here a positive number) that is distinct from    *)
(* its path, and it lives as long as something points to it.               *)
(***************************************************************************)
EXTENDS Integers, Sequences, FiniteSets, TLC

VARIABLES
  Pattern,        \* Bluepairy::Pattern (a literal, see nameMatches)
  ExpectedUUIDs,  \* Bluepairy::ExpectedUUIDs: std::vector<std::string>
  Adapters,       \* Bluepairy::Adapters: vector of pointers to Adapter objects
  Devices,        \* Bluepairy::Devices: vector of pointers to Device objects
  adapterObj,     \* the live BlueZ::Adapter objects, by address
  deviceObj,      \* the live BlueZ::Device objects, by address
  pc,             \* where the program is: "ctor" (the constructor's loop over
                  \* the managed objects), "main" (a readWrite of which the
                  \* caller is left open) or a place of Places
  Sent,           \* the replies handed to Bluepairy::send for the last message
                  \* that readWrite popped
  UUIDs,          \* main: std::vector<std::string> UUIDs
  Adapter,        \* powerUpAllAdapters, startDiscovery: the loop variable
  Device,         \* main: the loop variable; UsableDevices.front()
  PairableDevices,  \* main: the candidates the loop has not visited yet
  PoweredAdapters,  \* startDiscovery: what the loop over poweredAdapters()
                    \* has not visited yet
  UsableDevices,  \* main: auto UsableDevices
  Future,         \* Bluepairy::pair: the pending call and its reply
  It              \* the iterator of the range-for over Adapters
                  \* (powerUpAllAdapters) or over UUIDs (main): a position

registry == <<Adapters, Devices, adapterObj, deviceObj>>
options == <<Pattern, ExpectedUUIDs, UUIDs>>
locals == <<Adapter, Device, PairableDevices, PoweredAdapters, UsableDevices, Future>>
vars == <<registry, options, locals, pc, Sent, It>>

-----------------------------------------------------------------------------
(* Values *)

\* a null std::shared_ptr / a null char const *
NULL == 0
NullPath == "(null)"

\* A C++ bool member is "true", "false", or, as long as nothing was ever
\* assigned to it, "indeterminate" (the constructors initialise no bool).
CBool == {"true", "false", "indeterminate"}
FromBool(b) == IF b THEN "true" ELSE "false"

\* Reading a bool member: the set of values the read can produce.
ReadBool(m) == IF m = "indeterminate" THEN BOOLEAN ELSE {m = "true"}

AdapterInterface == "org.bluez.Adapter1"
DeviceInterface == "org.bluez.Device1"
OtherInterface == "org.freedesktop.DBus.Introspectable"

HID == "00001124-0000-1000-8000-00805f9b34fb"
SPP == "00001101-0000-1000-8000-00805f9b34fb"
PNP == "00001200-0000-1000-8000-00805f9b34fb"
UUIDUniverse == {SPP, HID, PNP}

\* std::string::operator< on the UUID strings: lexicographic on the bytes.
Alphabet == "-0123456789abcdef"
CharRank(c) == CHOOSE i \in 1..Len(Alphabet) : SubSeq(Alphabet, i, i) = c

RECURSIVE LexLess(_, _, _)
LexLess(a, b, i) ==
  IF i > Len(b) THEN FALSE
  ELSE IF i > Len(a) THEN TRUE
  ELSE LET ca == CharRank(SubSeq(a, i, i))
           cb == CharRank(SubSeq(b, i, i))
       IN IF ca < cb THEN TRUE
          ELSE IF cb < ca THEN FALSE
          ELSE LexLess(a, b, i + 1)

StringLessTable == [p \in UUIDUniverse \X UUIDUniverse |-> LexLess(p[1], p[2], 1)]
StringLess(a, b) == StringLessTable[<<a, b>>]

-----------------------------------------------------------------------------
(* The registry as a value: the members of the Bluepairy object together   *)
(* with the objects they point to.                                         *)

Self == [Adapters |-> Adapters, Devices |-> Devices,
         adapterObj |-> adapterObj, deviceObj |-> deviceObj]

Range(s) == {s[i] : i \in 1..Len(s)}

\* shared_ptr copies held by the workflow outside the registry
HeldAdapters == ({Adapter} \cup Range(PoweredAdapters)) \ {NULL}
HeldDevices == ({Device} \cup Range(PairableDevices) \cup Range(UsableDevices)) \ {NULL}

\* std::shared_ptr: an object is destroyed when its last pointer goes away;
\* heldA and heldD are the objects pointed to from outside the registry.
ReleaseHeld(B, heldA, heldD) ==
  LET liveD == Range(B.Devices) \cup heldD
      liveA == Range(B.Adapters) \cup heldA
               \cup ({B.deviceObj[d].AdapterPtr : d \in liveD} \ {NULL})
  IN [B EXCEPT !.deviceObj = [d \in liveD |-> B.deviceObj[d]],
               !.adapterObj = [a \in liveA |-> B.adapterObj[a]]]

Release(B) == ReleaseHeld(B, HeldAdapters, HeldDevices)

\* std::make_shared: the address of a fresh object
FreshIn(objs) == CHOOSE n \in 1..(Cardinality(DOMAIN objs) + 1) : n \notin DOMAIN objs

\* BlueZ::Adapter::Adapter: Path is set, the strings are empty, the bools
\* are not initialised.
NewAdapter(Path) ==
  [Path |-> Path, Address |-> "", Name |-> "",
   Powered |-> "indeterminate", Discovering |-> "indeterminate"]

\* BlueZ::Device::Device
NewDevice(Path) ==
  [Path |-> Path, AdapterPtr |-> NULL, Address |-> "", Connected |-> "indeterminate",
   Name |-> "", Paired |-> "indeterminate", Trusted |-> "indeterminate", UUIDs |-> {}]

\* find_if(begin(v), end(v), EqualPath): the first position, or 0 for end(v)
FindPath(v, objs, Path) ==
  IF \E i \in 1..Len(v) : objs[v[i]].Path = Path
  THEN CHOOSE i \in 1..Len(v) :
         /\ objs[v[i]].Path = Path
         /\ \A j \in 1..(i - 1) : objs[v[j]].Path # Path
  ELSE 0

\* vector::erase(Pos)
Erase(v, Pos) == SubSeq(v, 1, Pos - 1) \o SubSeq(v, Pos + 1, Len(v))

\* getAdapter without the find_if: always emplace_back
getAdapter_noFind(B, Path) ==
  LET a == FreshIn(B.adapterObj)
  IN [B |-> [B EXCEPT !.Adapters = Append(@, a),
                      !.adapterObj = (a :> NewAdapter(Path)) @@ @],
      ptr |-> a]

\* Bluepairy::getAdapter: [B |-> the registry afterwards, ptr |-> the result]
getAdapter(B, Path) ==
  LET Pos == FindPath(B.Adapters, B.adapterObj, Path)
  IN IF Pos # 0 THEN [B |-> B, ptr |-> B.Adapters[Pos]]
     ELSE LET a == FreshIn(B.adapterObj)
          IN [B |-> [B EXCEPT !.Adapters = Append(@, a),
                              !.adapterObj = (a :> NewAdapter(Path)) @@ @],
              ptr |-> a]

\* removeAdapter that also erases the Devices of the Adapter
removeAdapter_withDevices(B, Path) ==
  LET Pos == FindPath(B.Adapters, B.adapterObj, Path)
      Stays(d) == B.deviceObj[d].AdapterPtr # B.Adapters[Pos]
  IN IF Pos # 0 THEN Release([B EXCEPT !.Adapters = Erase(@, Pos),
                                       !.Devices = SelectSeq(@, Stays)])
     ELSE B

\* Bluepairy::removeAdapter
removeAdapter(B, Path) ==
  LET Pos == FindPath(B.Adapters, B.adapterObj, Path)
  IN IF Pos # 0 THEN Release([B EXCEPT !.Adapters = Erase(@, Pos)])
     ELSE B

\* Bluepairy::getDevice
getDevice(B, Path) ==
  LET Pos == FindPath(B.Devices, B.deviceObj, Path)
  IN IF Pos # 0 THEN [B |-> B, ptr |-> B.Devices[Pos]]
     ELSE LET d == FreshIn(B.deviceObj)
          IN [B |-> [B EXCEPT !.Devices = Append(@, d),
                              !.deviceObj = (d :> NewDevice(Path)) @@ @],
              ptr |-> d]

\* Bluepairy::removeDevice
removeDevice(B, Path) ==
  LET Pos == FindPath(B.Devices, B.deviceObj, Path)
  IN IF Pos # 0 THEN Release([B EXCEPT !.Devices = Erase(@, Pos)])
     ELSE B

\* an exists that compares paths instead of pointers
Adapter_exists_byPath(B, a) ==
  \E i \in 1..Len(B.Adapters) : B.adapterObj[B.Adapters[i]].Path = B.adapterObj[a].Path

\* BlueZ::Adapter::exists, BlueZ::Device::exists: is this very object registered
Adapter_exists(B, a) == \E i \in 1..Len(B.Adapters) : B.Adapters[i] = a
Device_exists(B, d) == \E i \in 1..Len(B.Devices) : B.Devices[i] = d

-----------------------------------------------------------------------------
(* Property payloads: a{sv}, a sequence of (name, variant) entries.  An    *)
(* entry carries its D-Bus type and the value in the field of that type.   *)

BoolProp(n, v) == [name |-> n, type |-> "b", b |-> v, s |-> "", a |-> <<>>]
StringProp(n, v) == [name |-> n, type |-> "s", b |-> FALSE, s |-> v, a |-> <<>>]
\* an array of strings
ArrayProp(n, v) == [name |-> n, type |-> "as", b |-> FALSE, s |-> "", a |-> v]
\* an array whose elements are not strings (the elements are never read)
OtherArrayProp(n) == [name |-> n, type |-> "au", b |-> FALSE, s |-> "", a |-> <<>>]
\* an object path; NullPath stands for ObjectPath == nullptr
PathProp(n, v) == [name |-> n, type |-> "o", b |-> FALSE, s |-> v, a |-> <<>>]

IsArrayType(t) == t \in {"as", "au"}

\* Adapter_setProperty with the Discovering branch a copy of the Powered
\* branch that still assigns Powered
Adapter_setProperty_copiedBranch(A, e) ==
  IF e.name = "Powered" THEN
    IF e.type = "b" THEN [A EXCEPT !.Powered = FromBool(e.b)] ELSE A
  ELSE IF e.name = "Discovering" THEN
    IF e.type = "b" THEN [A EXCEPT !.Powered = FromBool(e.b)] ELSE A
  ELSE IF e.name = "Address" THEN
    IF e.type = "s" THEN [A EXCEPT !.Address = e.s] ELSE A
  ELSE IF e.name = "Name" THEN
    IF e.type = "s" THEN [A EXCEPT !.Name = e.s] ELSE A
  ELSE A

\* One entry of BlueZ::Adapter::onPropertiesChanged: the record afterwards
Adapter_setProperty(A, e) ==
  IF e.name = "Powered" THEN
    IF e.type = "b" THEN [A EXCEPT !.Powered = FromBool(e.b)] ELSE A
  ELSE IF e.name = "Discovering" THEN
    IF e.type = "b" THEN [A EXCEPT !.Discovering = FromBool(e.b)] ELSE A
  ELSE IF e.name = "Address" THEN
    IF e.type = "s" THEN [A EXCEPT !.Address = e.s] ELSE A
  ELSE IF e.name = "Name" THEN
    IF e.type = "s" THEN [A EXCEPT !.Name = e.s] ELSE A
  ELSE A

\* BlueZ::Adapter::onPropertiesChanged on the object at address a
RECURSIVE Adapter_onPropertiesChanged(_, _, _)
Adapter_onPropertiesChanged(B, a, Properties) ==
  IF Properties = <<>> THEN B
  ELSE Adapter_onPropertiesChanged(
         [B EXCEPT !.adapterObj[a] = Adapter_setProperty(@, Head(Properties))],
         a, Tail(Properties))

\* the strings at the front of the array e
UUIDsFromArray(e) == IF e.type = "as" THEN Range(e.a) ELSE {}

\* the UUIDs branch without this->UUIDs.clear()
Device_assignUUIDs_noClear(Profiles, e) == Profiles \cup UUIDsFromArray(e)

\* the UUIDs branch: this->UUIDs.clear(), then insert every string of the
\* array; the set afterwards
Device_assignUUIDs(Profiles, e) == UUIDsFromArray(e)

\* the Adapter branch without the else: a null path leaves AdapterPtr
Device_setAdapter_noReset(B, d, ObjectPath) ==
  IF ObjectPath # NullPath THEN
    LET got == getAdapter(B, ObjectPath)
    IN Release([got.B EXCEPT !.deviceObj[d].AdapterPtr = got.ptr])
  ELSE B

\* the Adapter branch: AdapterPtr = getAdapter(ObjectPath), or reset()
Device_setAdapter(B, d, ObjectPath) ==
  IF ObjectPath # NullPath THEN
    LET got == getAdapter(B, ObjectPath)
    IN Release([got.B EXCEPT !.deviceObj[d].AdapterPtr = got.ptr])
  ELSE Release([B EXCEPT !.deviceObj[d].AdapterPtr = NULL])

\* One entry of BlueZ::Device::onPropertiesChanged: the registry afterwards
Device_setProperty(B, d, e) ==
  IF e.name = "Name" THEN
    IF e.type = "s" THEN [B EXCEPT !.deviceObj[d].Name = e.s] ELSE B
  ELSE IF e.name = "Address" THEN
    IF e.type = "s" THEN [B EXCEPT !.deviceObj[d].Address = e.s] ELSE B
  ELSE IF e.name = "Paired" THEN
    IF e.type = "b" THEN [B EXCEPT !.deviceObj[d].Paired = FromBool(e.b)] ELSE B
  ELSE IF e.name = "Trusted" THEN
    IF e.type = "b" THEN [B EXCEPT !.deviceObj[d].Trusted = FromBool(e.b)] ELSE B
  ELSE IF e.name = "Connected" THEN
    IF e.type = "b" THEN [B EXCEPT !.deviceObj[d].Connected = FromBool(e.b)] ELSE B
  ELSE IF e.name = "UUIDs" THEN
    IF IsArrayType(e.type)
    THEN [B EXCEPT !.deviceObj[d].UUIDs = Device_assignUUIDs(@, e)] ELSE B
  ELSE IF e.name = "Adapter" THEN
    IF e.type = "o" THEN Device_setAdapter(B, d, e.s) ELSE B
  ELSE B

\* BlueZ::Device::onPropertiesChanged on the object at address d
RECURSIVE Device_onPropertiesChanged(_, _, _)
Device_onPropertiesChanged(B, d, Properties) ==
  IF Properties = <<>> THEN B
  ELSE Device_onPropertiesChanged(Device_setProperty(B, d, Head(Properties)),
                                  d, Tail(Properties))

\* Bluepairy::updateObjectProperties: Interfaces is the a{sa{sv}} of one
\* object, a sequence of [iface, props]
RECURSIVE updateObjectProperties(_, _, _)
updateObjectProperties(B, Path, Interfaces) ==
  IF Interfaces = <<>> THEN B
  ELSE LET I == Head(Interfaces)
           B1 == IF I.iface = AdapterInterface THEN
                   LET got == getAdapter(B, Path)
                   IN Adapter_onPropertiesChanged(got.B, got.ptr, I.props)
                 ELSE IF I.iface = DeviceInterface THEN
                   LET got == getDevice(B, Path)
                   IN Device_onPropertiesChanged(got.B, got.ptr, I.props)
                 ELSE B
       IN updateObjectProperties(B1, Path, Tail(Interfaces))

\* readWrite, the PropertiesChanged signal
onPropertiesChanged(B, Path, InterfaceName, Properties) ==
  IF InterfaceName = AdapterInterface THEN
    LET got == getAdapter(B, Path)
    IN Adapter_onPropertiesChanged(got.B, got.ptr, Properties)
  ELSE IF InterfaceName = DeviceInterface THEN
    LET got == getDevice(B, Path)
    IN Device_onPropertiesChanged(got.B, got.ptr, Properties)
  ELSE B

\* readWrite, the InterfacesRemoved signal: Interfaces is a sequence of names
RECURSIVE onInterfacesRemoved(_, _, _)
onInterfacesRemoved(B, Path, Interfaces) ==
  IF Interfaces = <<>> THEN B
  ELSE LET B1 == IF Head(Interfaces) = AdapterInterface THEN removeAdapter(B, Path)
                 ELSE IF Head(Interfaces) = DeviceInterface THEN removeDevice(B, Path)
                 ELSE B
       IN onInterfacesRemoved(B1, Path, Tail(Interfaces))

-----------------------------------------------------------------------------
(* The filters *)

\* Bluepairy::nameMatches: regex_search(name, Pattern, match_not_null).
\* Pattern is taken from the regular expressions that are literals, for
\* which the search is a search for a non-empty substring.
nameMatches(Name) ==
  /\ Len(Pattern) > 0
  /\ \E i \in 1..(Len(Name) - Len(Pattern) + 1) :
       SubSeq(Name, i, i + Len(Pattern) - 1) = Pattern

\* std::sort on a vector of strings
RECURSIVE InsertSorted(_, _)
InsertSorted(x, v) ==
  IF v = <<>> THEN <<x>>
  ELSE IF StringLess(Head(v), x) THEN <<Head(v)>> \o InsertSorted(x, Tail(v))
  ELSE <<x>> \o v

RECURSIVE sort(_)
sort(v) == IF v = <<>> THEN <<>> ELSE InsertSorted(Head(v), sort(Tail(v)))

\* begin(set) .. end(set): a std::set<std::string> is iterated in order
RECURSIVE SetInOrder(_)
SetInOrder(S) ==
  IF S = {} THEN <<>>
  ELSE LET m == CHOOSE x \in S : \A y \in S \ {x} : StringLess(x, y)
       IN <<m>> \o SetInOrder(S \ {m})

\* std::set_intersection(first1, last1, first2, last2, out)
RECURSIVE set_intersection(_, _)
set_intersection(r1, r2) ==
  IF r1 = <<>> \/ r2 = <<>> THEN <<>>
  ELSE IF StringLess(Head(r1), Head(r2)) THEN set_intersection(Tail(r1), r2)
  ELSE IF StringLess(Head(r2), Head(r1)) THEN set_intersection(r1, Tail(r2))
  ELSE <<Head(r1)>> \o set_intersection(Tail(r1), Tail(r2))

\* Bluepairy::hasExpectedProfiles
hasExpectedProfiles(Profiles) ==
  set_intersection(SetInOrder(Profiles), ExpectedUUIDs) = ExpectedUUIDs

\* Device->adapter()->isPowered(): the values the read can produce; with a
\* null adapter() the load is through a null pointer, which faults or
\* yields anything.
AdapterPoweredReads(B, d) ==
  IF B.deviceObj[d].AdapterPtr = NULL THEN BOOLEAN
  ELSE ReadBool(B.adapterObj[B.deviceObj[d].AdapterPtr].Powered)

\* Device->adapter()->exists()
AdapterExistsReads(B, d) ==
  IF B.deviceObj[d].AdapterPtr = NULL THEN BOOLEAN
  ELSE {Adapter_exists(B, B.deviceObj[d].AdapterPtr)}

NullAdapterFault(B, d) ==
  IF B.deviceObj[d].AdapterPtr = NULL THEN {"fault"} ELSE {}

Verdict(b) == IF b THEN "yes" ELSE "no"

\* the condition of the loop body of usableDevices for one Device:
\* the set of its possible outcomes, among "yes", "no" and "fault"
usableTest(B, d) ==
  NullAdapterFault(B, d) \cup
  { Verdict(p /\ q /\ nameMatches(B.deviceObj[d].Name)
              /\ hasExpectedProfiles(B.deviceObj[d].UUIDs)) :
      p \in AdapterPoweredReads(B, d), q \in ReadBool(B.deviceObj[d].Paired) }

\* the condition of the loop body of pairableDevices for one Device
pairableTest(B, d) ==
  NullAdapterFault(B, d) \cup
  { Verdict(x[1] /\ x[2] /\ ~x[3] /\ nameMatches(B.deviceObj[d].Name)
              /\ hasExpectedProfiles(B.deviceObj[d].UUIDs)) :
      x \in AdapterExistsReads(B, d) \X AdapterPoweredReads(B, d)
            \X ReadBool(B.deviceObj[d].Paired) }

\* for (auto Device: Devices) if (test) Result.push_back(Device): the set
\* of possible results [fault, list], from position i on with Result = acc
RECURSIVE filterDevices(_, _, _, _)
filterDevices(B, pairable, i, acc) ==
  IF i > Len(B.Devices) THEN {[fault |-> FALSE, list |-> acc]}
  ELSE LET d == B.Devices[i]
           t == IF pairable THEN pairableTest(B, d) ELSE usableTest(B, d)
       IN (IF "fault" \in t THEN {[fault |-> TRUE, list |-> <<>>]} ELSE {})
          \cup (IF "yes" \in t THEN filterDevices(B, pairable, i + 1, Append(acc, d)) ELSE {})
          \cup (IF "no" \in t THEN filterDevices(B, pairable, i + 1, acc) ELSE {})

\* Bluepairy::usableDevices, Bluepairy::pairableDevices: the possible results
usableDevices(B) == filterDevices(B, FALSE, 1, <<>>)
pairableDevices(B) == filterDevices(B, TRUE, 1, <<>>)

-----------------------------------------------------------------------------
(* The agent *)

\* the alternatives of the first group of the regular expression HandyTech
HandyTech ==
  {"Actilino ALO", "Active Braille AB4", "Active Star AS4", "Basic Braille BB4",
   "Braille Star 40 BS4", "Braillino BL2"}

\* [[:upper:]] and [[:digit:]]
upper == "ABCDEFGHIJKLMNOPQRSTUVWXYZ"
digit == "0123456789"
CharIn(c, class) == \E i \in 1..Len(class) : SubSeq(class, i, i) = c
CharAt(str, i) == SubSeq(str, i, i)

\* SerialNumber[I] - '0', and the char of a number + '0'
DigitValue(c) == (CHOOSE i \in 1..Len(digit) : SubSeq(digit, i, i) = c) - 1
DigitChar(n) == SubSeq(digit, n + 1, n + 1)

\* regex_match(Device->name(), Match, HandyTech): Name as a whole is one of
\* the alternatives, "/", an upper-case letter, a digit, "-" and one or more
\* digits.  The set of the values of Match[2]: empty without a match.
regex_match(Name) ==
  {SubSeq(Name, Len(p) + 5, Len(Name)) :
     p \in {q \in HandyTech :
              /\ Len(Name) >= Len(q) + 5
              /\ SubSeq(Name, 1, Len(q)) = q
              /\ CharAt(Name, Len(q) + 1) = "/"
              /\ CharIn(CharAt(Name, Len(q) + 2), upper)
              /\ CharIn(CharAt(Name, Len(q) + 3), digit)
              /\ CharAt(Name, Len(q) + 4) = "-"
              /\ \A i \in (Len(q) + 5)..Len(Name) : CharIn(CharAt(Name, i), digit)}}

RECURSIVE PINCode(_, _)

\* the loop with I in the place of I + 1
PINCode_fromZero(SerialNumber, I) ==
  IF I < Len(SerialNumber)
  THEN DigitChar((DigitValue(CharAt(SerialNumber, I + 1)) + I) % 10)
       \o PINCode(SerialNumber, I + 1)
  ELSE ""

\* the loop of guessPIN from I on, I counted from 0 as in the code
PINCode(SerialNumber, I) ==
  IF I < Len(SerialNumber)
  THEN DigitChar((DigitValue(CharAt(SerialNumber, I + 1)) + I + 1) % 10)
       \o PINCode(SerialNumber, I + 1)
  ELSE ""

\* Bluepairy::guessPIN, of the name of the Device
guessPIN(Name) ==
  LET Match == regex_match(Name)
  IN IF Match # {} /\ Len(CHOOSE m \in Match : TRUE) = 5
     THEN PINCode(CHOOSE m \in Match : TRUE, 0)
     ELSE "0000"

\* a method return: the call it answers and its arguments
MethodReturn(Member, Path, Args) ==
  [reply_to |-> [member |-> Member, path |-> Path], args |-> Args]

\* RequestPinCode handled without a reply
onRequestPinCode_noReply(B, Path) ==
  [B |-> getDevice(B, Path).B, Sent |-> <<>>]

\* readWrite, the method call RequestPinCode(Path) on the agent path:
\* [B |-> the registry afterwards, Sent |-> what was handed to send]
onRequestPinCode(B, Path) ==
  LET got == getDevice(B, Path)
      PIN == guessPIN(got.B.deviceObj[got.ptr].Name)
  IN [B |-> got.B, Sent |-> <<MethodReturn("RequestPinCode", Path, <<PIN>>)>>]

\* readWrite, the method call RequestConfirmation(Path, PassKey) on the
\* agent path
onRequestConfirmation(B, Path, PassKey) ==
  [B |-> B, Sent |-> <<MethodReturn("RequestConfirmation", Path, <<>>)>>]

-----------------------------------------------------------------------------
(* Inputs *)

MaxProps == 2        \* entries in one property payload
MaxInterfaces == 1   \* interfaces of one added object
MaxRemoved == 2      \* interface names in one InterfacesRemoved
MaxOptUUIDs == 1     \* --connect options on the command line
MaxPassKey == 999999 \* the largest passkey of a RequestConfirmation

SeqsUpTo(S, n) == UNION {[1..k -> S] : k \in 0..n}

Hci0 == "/org/bluez/hci0"
Hci1 == "/org/bluez/hci1"
DevA == "/org/bluez/hci0/dev_A"
DevB == "/org/bluez/hci0/dev_B"
Braille == "Active Braille AB4/B1-12345"
Unknown == "Unknown Device"

\* The inputs of a specification: the paths messages name, the entries
\* property payloads are made of, the paths InterfacesRemoved names and the
\* command lines.
Universe(adapterPaths, devicePaths, adapterEntries, deviceEntries, removedPaths,
         optUUIDs, hids, patterns) ==
  [adapterPaths |-> adapterPaths, devicePaths |-> devicePaths,
   adapterPayloads |-> SeqsUpTo(adapterEntries, MaxProps),
   devicePayloads |-> SeqsUpTo(deviceEntries, MaxProps),
   removedPaths |-> removedPaths, optUUIDs |-> optUUIDs, hids |-> hids,
   patterns |-> patterns]

\* the entries of the a{sa{sv}} of the object at Path
InterfaceEntries(U, Path) ==
  (IF Path \in U.adapterPaths
   THEN {[iface |-> AdapterInterface, props |-> p] : p \in U.adapterPayloads} ELSE {})
  \cup (IF Path \in U.devicePaths
        THEN {[iface |-> DeviceInterface, props |-> p] : p \in U.devicePayloads} ELSE {})
  \cup {[iface |-> OtherInterface, props |-> <<>>]}

-----------------------------------------------------------------------------
(* The program *)

\* the places where the program is inside a call of readWrite
ReadWrite ==
  {"main", "powerUpAllAdapters.readWrite", "main.readWrite", "pair.readWrite",
   "trust.readWrite", "startDiscovery.readWrite"}

\* the places inside the loop of powerUpAllAdapters
PowerUpPlaces ==
  {"powerUpAllAdapters", "Adapter.power", "powerUpAllAdapters.readWrite",
   "powerUpAllAdapters.while"}

\* the iterator of powerUpAllAdapters once the vector it runs over changed
Invalid == 0 - 1

\* the members of the Bluepairy object are assigned; a change of Adapters
\* invalidates the iterator of the loop of powerUpAllAdapters
Store(B) ==
  /\ Adapters' = B.Adapters
  /\ Devices' = B.Devices
  /\ adapterObj' = B.adapterObj
  /\ deviceObj' = B.deviceObj
  /\ It' = IF pc \in PowerUpPlaces /\ B.Adapters # Adapters THEN Invalid ELSE It

\* main up to the constructor's sort: the --connect options, --hid, and
\* sort(begin(ExpectedUUIDs), end(ExpectedUUIDs))
Startup(FriendlyName, Connect, hid) ==
  /\ FriendlyName # ""
  /\ \A i \in 1..Len(Connect) : Connect[i] # ""
  /\ Pattern = FriendlyName
  /\ UUIDs = (IF hid THEN Append(Connect, HID) ELSE Connect)
  /\ ExpectedUUIDs = sort(UUIDs)

\* The constructor at its loop over the reply to GetManagedObjects, the
\* readWrite before it having found no message.
InitOver(U) ==
  /\ \E FriendlyName \in U.patterns, Connect \in U.optUUIDs, hid \in U.hids :
       Startup(FriendlyName, Connect, hid)
  /\ Adapters = <<>>
  /\ Devices = <<>>
  /\ adapterObj = << >>
  /\ deviceObj = << >>
  /\ pc = "ctor"
  /\ Sent = <<>>
  /\ Adapter = NULL
  /\ Device = NULL
  /\ PairableDevices = <<>>
  /\ PoweredAdapters = <<>>
  /\ UsableDevices = <<>>
  /\ Future = "none"
  /\ It = 0

\* the constructor's loop over the reply: one object of the snapshot
ManagedObject(U) ==
  /\ pc = "ctor"
  /\ \E Path \in U.adapterPaths \cup U.devicePaths :
       \E Interfaces \in SeqsUpTo(InterfaceEntries(U, Path), MaxInterfaces) :
         Store(updateObjectProperties(Self, Path, Interfaces))
  /\ UNCHANGED <<options, locals, pc, Sent>>

\* the end of the snapshot; the agent is registered and main goes on
RegisterAgent ==
  /\ pc = "ctor"
  /\ pc' = "main"
  /\ UNCHANGED <<registry, options, locals, Sent, It>>

\* readWrite: signal InterfacesAdded
InterfacesAdded(U) ==
  /\ pc \in ReadWrite
  /\ \E Path \in U.adapterPaths \cup U.devicePaths :
       \E Interfaces \in SeqsUpTo(InterfaceEntries(U, Path), MaxInterfaces) :
         Store(updateObjectProperties(Self, Path, Interfaces))
  /\ Sent' = <<>>
  /\ UNCHANGED <<options, locals, pc>>

\* readWrite: signal InterfacesRemoved
InterfacesRemoved(U) ==
  /\ pc \in ReadWrite
  /\ \E Path \in U.removedPaths :
       \E Interfaces \in SeqsUpTo({AdapterInterface, DeviceInterface, OtherInterface},
                                  MaxRemoved) :
         Store(onInterfacesRemoved(Self, Path, Interfaces))
  /\ Sent' = <<>>
  /\ UNCHANGED <<options, locals, pc>>

\* readWrite: signal PropertiesChanged
PropertiesChanged(U) ==
  /\ pc \in ReadWrite
  /\ \E Path \in U.adapterPaths \cup U.devicePaths :
       \E I \in InterfaceEntries(U, Path) :
         Store(onPropertiesChanged(Self, Path, I.iface, I.props))
  /\ Sent' = <<>>
  /\ UNCHANGED <<options, locals, pc>>

\* readWrite: method call RequestPinCode on the agent path
RequestPinCode(U) ==
  /\ pc \in ReadWrite
  /\ \E Path \in U.devicePaths :
       LET R == onRequestPinCode(Self, Path)
       IN Store(R.B) /\ Sent' = R.Sent
  /\ UNCHANGED <<options, locals, pc>>

\* readWrite: method call RequestConfirmation on the agent path
RequestConfirmation(U) ==
  /\ pc \in ReadWrite
  /\ \E Path \in U.devicePaths, PassKey \in {0, MaxPassKey} :
       LET R == onRequestConfirmation(Self, Path, PassKey)
       IN Store(R.B) /\ Sent' = R.Sent
  /\ UNCHANGED <<options, locals, pc>>

NextOver(U) ==
  \/ ManagedObject(U)
  \/ RegisterAgent
  \/ InterfacesAdded(U)
  \/ InterfacesRemoved(U)
  \/ PropertiesChanged(U)
  \/ RequestPinCode(U)
  \/ RequestConfirmation(U)

-----------------------------------------------------------------------------
(* Spec: the registry, two Adapters and two Devices coming and going *)

URegistry ==
  Universe({Hci0, Hci1}, {DevA, DevB},
           {},
           {PathProp("Adapter", Hci0), PathProp("Adapter", Hci1),
            PathProp("Adapter", NullPath)},
           {Hci0, Hci1, DevA, DevB}, {<<>>}, {FALSE}, {"Braille"})

Init == InitOver(URegistry)
Next == NextOver(URegistry)
Spec == Init /\ [][Next]_vars

-----------------------------------------------------------------------------
(* SpecDecoder: one Adapter and one Device, every property *)

UDecoder ==
  Universe({Hci0}, {DevA},
           {BoolProp("Powered", TRUE), BoolProp("Powered", FALSE),
            BoolProp("Discovering", TRUE),
            StringProp("Address", "00:1A:7D:DA:71:13"), StringProp("Name", "hci"),
            StringProp("Powered", "on"), StringProp("Alias", "hci")},
           {StringProp("Name", Braille), StringProp("Address", "00:07:80:2F:1C:4A"),
            BoolProp("Paired", TRUE), BoolProp("Paired", FALSE),
            BoolProp("Trusted", TRUE), BoolProp("Connected", TRUE),
            ArrayProp("UUIDs", <<>>), ArrayProp("UUIDs", <<SPP, HID>>),
            OtherArrayProp("UUIDs"),
            PathProp("Adapter", Hci0), PathProp("Adapter", NullPath),
            StringProp("Paired", "yes"), StringProp("Alias", "AB4")},
           {DevA}, {<<>>}, {FALSE}, {"Braille"})

InitDecoder == InitOver(UDecoder)
NextDecoder == NextOver(UDecoder)
SpecDecoder == InitDecoder /\ [][NextDecoder]_vars

-----------------------------------------------------------------------------
(* The registry: C1, C8, C9, C10 (under Spec) *)

PathsOf(v, objs) == [i \in 1..Len(v) |-> objs[v[i]].Path]
NoRepeat(v) == \A i, j \in 1..Len(v) : v[i] = v[j] => i = j

\* C1: the registry holds at most one Adapter record and at most one Device
\* record per path, whatever messages were handled.
C1_OneRecordPerPath ==
  /\ NoRepeat(PathsOf(Adapters, adapterObj))
  /\ NoRepeat(PathsOf(Devices, deviceObj))

\* Both Adapters and both Devices are registered, and an Adapter was removed
\* and registered again under its path while a Device kept the old record.
C1_Witness ==
  /\ Len(Adapters) = 2
  /\ Len(Devices) = 2
  /\ \E d \in Range(Devices), a \in Range(Adapters) :
       /\ deviceObj[d].AdapterPtr \notin Range(Adapters) \cup {NULL}
       /\ adapterObj[deviceObj[d].AdapterPtr].Path = adapterObj[a].Path

\* the last entry of a payload that the Adapter branch of the Device decoder
\* acts on, or 0
LastAdapterEntry(Properties) ==
  LET S == {i \in 1..Len(Properties) :
              Properties[i].name = "Adapter" /\ Properties[i].type = "o"}
  IN IF S = {} THEN 0 ELSE CHOOSE i \in S : \A j \in S : j <= i

\* C8: after a Device payload whose Adapter field names path p is decoded,
\* the Device's adapter pointer is the registered Adapter record with path
\* p: the record registered before if there was one, a record registered by
\* the decoding otherwise.  After a payload whose Adapter field is the empty
\* reference, the Device has no adapter.
C8_AdapterReferenceResolved ==
  \A d \in Range(Devices), Properties \in URegistry.devicePayloads :
    LET i == LastAdapterEntry(Properties)
        R == Device_onPropertiesChanged(Self, d, Properties)
        ptr == R.deviceObj[d].AdapterPtr
        before == FindPath(Adapters, adapterObj, Properties[i].s)
    IN i # 0 =>
         IF Properties[i].s = NullPath THEN ptr = NULL
         ELSE /\ ptr # NULL
              /\ Adapter_exists(R, ptr)
              /\ R.adapterObj[ptr].Path = Properties[i].s
              /\ NoRepeat(PathsOf(R.Adapters, R.adapterObj))
              /\ IF before # 0 THEN ptr = Adapters[before]
                 ELSE /\ ~Adapter_exists(Self, ptr)
                      /\ R.adapterObj[ptr] = NewAdapter(Properties[i].s)

\* A Device points to a registered Adapter that only the decoding of its
\* Adapter field can have registered, and another Device has no adapter.
C8_Witness ==
  \E d, e \in Range(Devices) :
    /\ deviceObj[d].AdapterPtr # NULL
    /\ Adapter_exists(Self, deviceObj[d].AdapterPtr)
    /\ adapterObj[deviceObj[d].AdapterPtr].Path = Hci1
    /\ deviceObj[e].AdapterPtr = NULL

\* what a freshly constructed record reads as when every bool is read
ReadsAsZeroAdapter(A) ==
  /\ A.Address = "" /\ A.Name = ""
  /\ ReadBool(A.Powered) = {FALSE} /\ ReadBool(A.Discovering) = {FALSE}
ReadsAsZeroDevice(D) ==
  /\ D.Address = "" /\ D.Name = "" /\ D.UUIDs = {} /\ D.AdapterPtr = NULL
  /\ ReadBool(D.Paired) = {FALSE} /\ ReadBool(D.Trusted) = {FALSE}
  /\ ReadBool(D.Connected) = {FALSE}

\* C9 (as claimed): getAdapter / getDevice return the registered record for
\* a path without changing anything, and otherwise register exactly one new
\* record whose fields are all zero: the bools false, the strings and the
\* profile set empty, no adapter.
C9_GetOrCreateZeroInitialized ==
  /\ \A Path \in URegistry.adapterPaths :
       LET got == getAdapter(Self, Path)
           Pos == FindPath(Adapters, adapterObj, Path)
       IN IF Pos # 0 THEN got.B = Self /\ got.ptr = Adapters[Pos]
          ELSE /\ got.B.Adapters = Append(Adapters, got.ptr)
               /\ got.ptr \notin DOMAIN adapterObj
               /\ got.B.adapterObj[got.ptr].Path = Path
               /\ ReadsAsZeroAdapter(got.B.adapterObj[got.ptr])
  /\ \A Path \in URegistry.devicePaths :
       LET got == getDevice(Self, Path)
           Pos == FindPath(Devices, deviceObj, Path)
       IN IF Pos # 0 THEN got.B = Self /\ got.ptr = Devices[Pos]
          ELSE /\ got.B.Devices = Append(Devices, got.ptr)
               /\ got.ptr \notin DOMAIN deviceObj
               /\ got.B.deviceObj[got.ptr].Path = Path
               /\ ReadsAsZeroDevice(got.B.deviceObj[got.ptr])

\* the records of v whose path is not Path, in order
Without(v, objs, Path) == LET Keep(x) == objs[x].Path # Path IN SelectSeq(v, Keep)

RemovedNames == SeqsUpTo({AdapterInterface, DeviceInterface, OtherInterface}, MaxRemoved)

\* C10: handling InterfacesRemoved for a path and a list of interfaces
\* removes the Adapter record with that path if the Adapter interface is
\* listed and the Device record with that path if the Device interface is
\* listed, and nothing else: every other record stays registered and keeps
\* its fields, a Device keeps its adapter pointer and the Adapter it points
\* to although that Adapter was removed; where no such record is registered
\* the registry is as before and the rest of the list is still handled.
C10_RemoveEvictsExactlyOne ==
  \A Path \in URegistry.removedPaths, Interfaces \in RemovedNames :
    LET R == onInterfacesRemoved(Self, Path, Interfaces)
    IN /\ R.Adapters = IF AdapterInterface \in Range(Interfaces)
                       THEN Without(Adapters, adapterObj, Path) ELSE Adapters
       /\ R.Devices = IF DeviceInterface \in Range(Interfaces)
                      THEN Without(Devices, deviceObj, Path) ELSE Devices
       /\ \A a \in Range(R.Adapters) : R.adapterObj[a] = adapterObj[a]
       /\ \A d \in Range(R.Devices) :
            /\ R.deviceObj[d] = deviceObj[d]
            /\ deviceObj[d].AdapterPtr # NULL =>
                 R.adapterObj[deviceObj[d].AdapterPtr] = adapterObj[deviceObj[d].AdapterPtr]
       /\ (FindPath(Adapters, adapterObj, Path) = 0
           /\ FindPath(Devices, deviceObj, Path) = 0) => R = Self

\* An Adapter was removed while a registered Device points to it, and the
\* other Adapter and the other Device are still registered.
C10_Witness ==
  /\ Len(Adapters) = 1
  /\ Len(Devices) = 2
  /\ \E d \in Range(Devices) :
       /\ deviceObj[d].AdapterPtr \notin Range(Adapters) \cup {NULL}
       /\ adapterObj[deviceObj[d].AdapterPtr].Path # adapterObj[Adapters[1]].Path

-----------------------------------------------------------------------------
(* The property decoder: C5, C6, C7 (under SpecDecoder) *)

\* the property that each field of a record is decoded from
AdapterProperty ==
  [Address |-> "Address", Name |-> "Name", Powered |-> "Powered",
   Discovering |-> "Discovering"]
DeviceProperty ==
  [AdapterPtr |-> "Adapter", Address |-> "Address", Connected |-> "Connected",
   Name |-> "Name", Paired |-> "Paired", Trusted |-> "Trusted", UUIDs |-> "UUIDs"]

NamesIn(Properties) == {Properties[i].name : i \in 1..Len(Properties)}

\* C5: decoding a payload for a record changes no field whose property name
\* is not in the payload (so a payload of unknown names changes nothing and
\* an absent bool keeps its value), never the path, no other record, and
\* not the list of registered Devices; only a payload with the Adapter
\* property can touch the list of Adapters.
C5_OnlyNamedFieldsChange ==
  /\ \A d \in Range(Devices), Properties \in UDecoder.devicePayloads :
       LET R == Device_onPropertiesChanged(Self, d, Properties)
       IN /\ \A f \in DOMAIN DeviceProperty :
               DeviceProperty[f] \notin NamesIn(Properties) =>
                 R.deviceObj[d][f] = deviceObj[d][f]
          /\ R.deviceObj[d].Path = deviceObj[d].Path
          /\ R.Devices = Devices
          /\ \A e \in Range(Devices) \ {d} : R.deviceObj[e] = deviceObj[e]
          /\ "Adapter" \notin NamesIn(Properties) =>
               R.Adapters = Adapters /\ R.adapterObj = adapterObj
  /\ \A a \in Range(Adapters), Properties \in UDecoder.adapterPayloads :
       LET R == Adapter_onPropertiesChanged(Self, a, Properties)
       IN /\ \A f \in DOMAIN AdapterProperty :
               AdapterProperty[f] \notin NamesIn(Properties) =>
                 R.adapterObj[a][f] = adapterObj[a][f]
          /\ R.adapterObj[a].Path = adapterObj[a].Path
          /\ R.Adapters = Adapters
          /\ \A b \in DOMAIN adapterObj \ {a} : R.adapterObj[b] = adapterObj[b]
          /\ R.Devices = Devices /\ R.deviceObj = deviceObj

\* A Device that payloads naming Paired and Address, and no payload naming
\* Name, Trusted or UUIDs, were decoded for; likewise an Adapter.
C5_Witness ==
  /\ \E d \in Range(Devices) :
       /\ deviceObj[d].Paired = "false" /\ deviceObj[d].Address # ""
       /\ deviceObj[d].Trusted = "indeterminate" /\ deviceObj[d].Name = ""
       /\ deviceObj[d].UUIDs = {}
  /\ \E a \in Range(Adapters) :
       adapterObj[a].Powered = "true" /\ adapterObj[a].Discovering = "indeterminate"

\* C6: after a Device payload with the UUIDs array is decoded, the Device's
\* profile set is exactly the set of the strings of that array (of the last
\* one if the payload has several): what was held before and is not in the
\* array is gone, and an empty array leaves the empty set.
C6_UUIDsReplaced ==
  \A d \in Range(Devices), Properties \in UDecoder.devicePayloads :
    LET S == {i \in 1..Len(Properties) :
                Properties[i].name = "UUIDs" /\ IsArrayType(Properties[i].type)}
        i == CHOOSE k \in S : \A j \in S : j <= k
        given == IF Properties[i].type = "as"
                 THEN {Properties[i].a[k] : k \in 1..Len(Properties[i].a)} ELSE {}
        R == Device_onPropertiesChanged(Self, d, Properties)
    IN S # {} =>
         /\ R.deviceObj[d].UUIDs = given
         /\ \A u \in deviceObj[d].UUIDs \ given : u \notin R.deviceObj[d].UUIDs

\* A Device holds two UUIDs, decoded from an array; the arrays that can be
\* decoded next hold none of them.
C6_Witness ==
  \E d \in Range(Devices) :
    /\ deviceObj[d].UUIDs = {SPP, HID}
    /\ \E Properties \in UDecoder.devicePayloads :
         Len(Properties) = 1 /\ Properties[1] = ArrayProp("UUIDs", <<>>)

\* C7: handling PropertiesChanged a second time with the same path,
\* interface and payload changes nothing: records and registry are as after
\* the first time.
C7_DecodeIdempotent ==
  \A Path \in UDecoder.adapterPaths \cup UDecoder.devicePaths :
    \A I \in InterfaceEntries(UDecoder, Path) :
      LET R == onPropertiesChanged(Self, Path, I.iface, I.props)
      IN onPropertiesChanged(R, Path, I.iface, I.props) = R

\* The Device points to the registered Adapter and both hold decoded
\* values that a further payload can change.
C7_Witness ==
  \E d \in Range(Devices) :
    /\ deviceObj[d].AdapterPtr # NULL
    /\ Adapter_exists(Self, deviceObj[d].AdapterPtr)
    /\ adapterObj[deviceObj[d].AdapterPtr].Powered = "true"
    /\ deviceObj[d].Paired = "true"
    /\ deviceObj[d].UUIDs = {SPP, HID}

-----------------------------------------------------------------------------
(* SpecFilter: every command line, one Adapter and one Device with the     *)
(* properties the filters read                                             *)

UFilter ==
  Universe({Hci0}, {DevA},
           {BoolProp("Powered", TRUE), BoolProp("Powered", FALSE)},
           {StringProp("Name", Braille), StringProp("Name", Unknown),
            BoolProp("Paired", TRUE), BoolProp("Paired", FALSE),
            ArrayProp("UUIDs", <<HID>>), ArrayProp("UUIDs", <<PNP, HID>>),
            PathProp("Adapter", Hci0)},
           {Hci0, DevA}, SeqsUpTo(UUIDUniverse, MaxOptUUIDs), BOOLEAN, {"Braille"})

InitFilter == InitOver(UFilter)
NextFilter == NextOver(UFilter)
SpecFilter == InitFilter /\ [][NextFilter]_vars

\* d has an adapter and every bool that the filters read of d was assigned
Determinate(d) ==
  /\ deviceObj[d].AdapterPtr # NULL
  /\ deviceObj[d].Paired # "indeterminate"
  /\ adapterObj[deviceObj[d].AdapterPtr].Powered # "indeterminate"

\* every UUID of the Expected Profile Set is in the profile set of d
OffersExpected(d) == \A i \in 1..Len(ExpectedUUIDs) : ExpectedUUIDs[i] \in deviceObj[d].UUIDs

\* C2 (as claimed): a registered Device is in the result of usableDevices()
\* if and only if its adapter is powered, it is paired, its name matches
\* the pattern and every expected UUID is in its profile set.
C2_UsableIffConditions ==
  \A d \in Range(Devices) : \A r \in usableDevices(Self) :
    (pc = "main" /\ Determinate(d) /\ ~r.fault) =>
      (d \in Range(r.list) <=>
         /\ adapterObj[deviceObj[d].AdapterPtr].Powered = "true"
         /\ deviceObj[d].Paired = "true"
         /\ nameMatches(deviceObj[d].Name)
         /\ OffersExpected(d))

\* C3 (as claimed): a registered Device is in the result of
\* pairableDevices() if and only if its adapter is a registered record and
\* powered, it is not paired, its name matches the pattern and every
\* expected UUID is in its profile set.
C3_PairableIffConditions ==
  \A d \in Range(Devices) : \A r \in pairableDevices(Self) :
    (pc = "main" /\ Determinate(d) /\ ~r.fault) =>
      (d \in Range(r.list) <=>
         /\ Adapter_exists(Self, deviceObj[d].AdapterPtr)
         /\ adapterObj[deviceObj[d].AdapterPtr].Powered = "true"
         /\ deviceObj[d].Paired = "false"
         /\ nameMatches(deviceObj[d].Name)
         /\ OffersExpected(d))

Sorted(v) == \A i \in 1..(Len(v) - 1) : ~StringLess(v[i + 1], v[i])

\* C4 (as claimed): whatever UUIDs the command line gave, the same one twice
\* included, ExpectedUUIDs is sorted and without duplicates, so a Device
\* whose profile set has every UUID given passes hasExpectedProfiles.
C4_ExpectedSetSortedDeduplicated ==
  \A d \in Range(Devices) :
    (pc = "main" /\ OffersExpected(d)) =>
      /\ Sorted(ExpectedUUIDs)
      /\ NoRepeat(ExpectedUUIDs)
      /\ hasExpectedProfiles(deviceObj[d].UUIDs)

-----------------------------------------------------------------------------
(* Where records come from: C11 (under Spec) *)

\* the objects registered in R and not in B
Entered(B, R) ==
  [Adapters |-> Range(R.Adapters) \ Range(B.Adapters),
   Devices |-> Range(R.Devices) \ Range(B.Devices)]

\* C11 (as claimed): a record enters the registry only while an object of
\* the snapshot or an InterfacesAdded signal is handled; handling a
\* PropertiesChanged signal, whatever path it names, registers no record.
C11_RecordsEnterOnlyWhenAdded ==
  pc = "main" =>
    \A Path \in URegistry.adapterPaths \cup URegistry.devicePaths :
      \A I \in InterfaceEntries(URegistry, Path) :
        LET R == onPropertiesChanged(Self, Path, I.iface, I.props)
        IN Entered(Self, R).Adapters = {} /\ Entered(Self, R).Devices = {}

-----------------------------------------------------------------------------
(* The adapter a filter reads: C13 (under SpecFilter) *)

\* a is the record registered under its own path
RegisteredUnderItsPath(a) ==
  LET Pos == FindPath(Adapters, adapterObj, adapterObj[a].Path)
  IN Pos # 0 /\ Adapters[Pos] = a

\* C13 (as claimed): a Device that usableDevices() or pairableDevices()
\* reports was judged on the Adapter record that is registered under the
\* path of its adapter: never on a record that was removed.
C13_DecisionOnRegisteredAdapter ==
  pc = "main" =>
    \A r \in usableDevices(Self) \cup pairableDevices(Self) :
      \A d \in Range(r.list) :
        Determinate(d) => RegisteredUnderItsPath(deviceObj[d].AdapterPtr)

-----------------------------------------------------------------------------
(* SpecAgent: two Devices under every kind of name, and the agent requests  *)
(* for them: C14, C15                                                       *)

\* a name made the way the HandyTech displays name themselves
HandyTechName(Product, Letter, Number, Serial) ==
  Product \o "/" \o Letter \o Number \o "-" \o Serial

Letters == {"A", "B", "Z"}
Numbers == {"0", "1", "9"}
Serials == {"12345", "99999", "00000", "56789", "1234", "123456", ""}

\* names that are no such name
OtherNames ==
  {"", Unknown, "Active Braille AB4", "Active Braille AB4/b1-12345",
   "Active Braille AB4/BB-12345", "Active Braille AB4-12345",
   "Active Braille AB4/B1-1234x", "Active Braille AB4/B1-12345 ",
   "My Active Braille AB4/B1-12345", "Active Braille AB5/B1-12345"}

AgentNames ==
  {Braille, HandyTechName("Actilino ALO", "A", "0", "99999"),
   HandyTechName("Braillino BL2", "Z", "9", "123456"),
   HandyTechName("Active Star AS4", "A", "9", "1234"),
   "My Active Braille AB4/B1-12345", "Active Braille AB4/b1-12345", Unknown}

UAgent ==
  Universe({}, {DevA, DevB}, {},
           {StringProp("Name", n) : n \in AgentNames},
           {DevA}, {<<>>}, {FALSE}, {"Braille"})

InitAgent == InitOver(UAgent)
NextAgent == NextOver(UAgent)
SpecAgent == InitAgent /\ [][NextAgent]_vars

\* the names with a serial number of 5 digits
FiveDigitNames ==
  {HandyTechName(p, l, n, r) :
     p \in HandyTech, l \in Letters, n \in Numbers, r \in {x \in Serials : Len(x) = 5}}

\* the i-th digit, i from 0, is (serial digit + i + 1) mod 10
ShiftedSerial(r) ==
  LET D(i) == DigitChar((DigitValue(CharAt(r, i + 1)) + i + 1) % 10)
  IN D(0) \o D(1) \o D(2) \o D(3) \o D(4)

\* the PIN the policy is to give for a name
PolicyPIN(Name) ==
  IF Name \in FiveDigitNames THEN ShiftedSerial(SubSeq(Name, Len(Name) - 4, Len(Name)))
  ELSE "0000"

\* the name of the Device registered under Path, "" for none
NameAt(Path) ==
  LET Pos == FindPath(Devices, deviceObj, Path)
  IN IF Pos = 0 THEN "" ELSE deviceObj[Devices[Pos]].Name

\* C14: a RequestPinCode for a Device path is answered, while it is
\* handled, with exactly one reply that carries the PIN of the policy for
\* the name the Device has then; a RequestConfirmation for a path and a
\* passkey is answered with exactly one reply without arguments, whatever
\* the passkey, and changes nothing.
C14_AgentRequestsAnswered ==
  /\ Len(Sent) <= 1
  /\ pc \in ReadWrite =>
       \A Path \in UAgent.devicePaths :
         /\ onRequestPinCode(Self, Path).Sent
              = <<MethodReturn("RequestPinCode", Path, <<PolicyPIN(NameAt(Path))>>)>>
         /\ \A PassKey \in {0, 1, MaxPassKey} :
              /\ onRequestConfirmation(Self, Path, PassKey).Sent
                   = <<MethodReturn("RequestConfirmation", Path, <<>>)>>
              /\ onRequestConfirmation(Self, Path, PassKey).B = Self

\* The request for the PIN of the Active Braille was answered.
C14_Witness ==
  /\ NameAt(DevA) = Braille
  /\ Sent = <<MethodReturn("RequestPinCode", DevA, <<"24680">>)>>

\* C15: guessPIN gives, for a name that as a whole is one of the products,
\* "/", an upper-case letter, a digit, "-" and a serial number of exactly 5
\* digits, the 5 digits (serial digit + i + 1) mod 10, i from 0 (24680 for
\* 12345); for every other name, a serial number of fewer or more than 5
\* digits included, it gives 0000.
C15_PINPolicy ==
  /\ guessPIN(Braille) = "24680"
  /\ \A p \in HandyTech, l \in Letters, n \in Numbers, r \in Serials :
       guessPIN(HandyTechName(p, l, n, r))
         = IF Len(r) = 5 THEN ShiftedSerial(r) ELSE "0000"
  /\ \A Name \in OtherNames : guessPIN(Name) = "0000"
  /\ \A d \in Range(Devices) : guessPIN(deviceObj[d].Name) = PolicyPIN(deviceObj[d].Name)

\* A PIN was sent for a name with the serial number 99999, and a Device has
\* a name with a serial number of 6 digits.
C15_Witness ==
  /\ \E Path \in UAgent.devicePaths :
       /\ NameAt(Path) = HandyTechName("Actilino ALO", "A", "0", "99999")
       /\ Sent = <<MethodReturn("RequestPinCode", Path, <<"01234">>)>>
  /\ \E d \in Range(Devices) :
       deviceObj[d].Name = HandyTechName("Braillino BL2", "Z", "9", "123456")

-----------------------------------------------------------------------------
(* The workflow: main after the construction of the Bluepairy object,      *)
(* powerUpAllAdapters, startDiscovery, pair and trust.  Messages are       *)
(* handled only inside readWrite; a call that waits for its reply          *)
(* (PendingCall::get) is a place of its own, left when the reply is there. *)

\* struct Error and the structs derived from it
BlueZ_Error ==
  {"AlreadyConnected", "AlreadyExists", "AuthenticationFailed",
   "AuthenticationRejected", "AuthenticationTimeout", "ConnectionAttemptFailed",
   "Failed"}

ErrorName(k) == "org.bluez.Error." \o k

\* the error replies of the daemon and of the bus
ErrorReplies ==
  {ErrorName(k) : k \in BlueZ_Error}
  \cup {"org.bluez.Error.NotReady", "org.bluez.Error.AuthenticationCanceled",
        "org.freedesktop.DBus.Error.NoReply"}

\* a reply: a method return or an error of some name
Replies == {"return"} \cup ErrorReplies

\* throwIfErrorIsSet on an error of this name: the type of what is thrown
throwIfErrorIsSet(name) ==
  IF \E k \in BlueZ_Error : name = ErrorName(k)
  THEN "BlueZ::" \o (CHOOSE k \in BlueZ_Error : name = ErrorName(k))
  ELSE "std::runtime_error"

\* catch (BlueZ::Error &E)
catch_BlueZ_Error(exception) == exception \in {"BlueZ::" \o k : k \in BlueZ_Error}

\* the place after the return of readWrite
AfterReadWrite ==
  [p \in ReadWrite \ {"main"} |->
     CASE p = "powerUpAllAdapters.readWrite" -> "powerUpAllAdapters.while"
       [] p = "main.readWrite" -> "pairableDevices"
       [] p = "pair.readWrite" -> "pair.while"
       [] p = "trust.readWrite" -> "trust.while"
       [] p = "startDiscovery.readWrite" -> "startDiscovery.while"]

\* the ends of the process: return from main, std::terminate on an
\* exception nothing catches, a fault
Ends == {"EXIT_SUCCESS", "EXIT_FAILURE", "terminate", "fault"}

\* the process ends; nothing of it is left
End(status) ==
  /\ pc' = status
  /\ Adapters' = <<>>
  /\ Devices' = <<>>
  /\ adapterObj' = << >>
  /\ deviceObj' = << >>
  /\ Adapter' = NULL
  /\ Device' = NULL
  /\ PairableDevices' = <<>>
  /\ PoweredAdapters' = <<>>
  /\ UsableDevices' = <<>>
  /\ Future' = "none"
  /\ Sent' = <<>>
  /\ It' = 0
  /\ UNCHANGED options

\* the objects that lost their last pointer in this step are destroyed
Collect ==
  LET B == ReleaseHeld(Self, HeldAdapters', HeldDevices')
  IN /\ Adapters' = B.Adapters
     /\ Devices' = B.Devices
     /\ adapterObj' = B.adapterObj
     /\ deviceObj' = B.deviceObj

\* Bluepairy::isDiscovering: the results the reads can produce
isDiscovering(B) ==
  LET May(a, v) == v \in {p /\ q : p \in ReadBool(B.adapterObj[a].Powered),
                                   q \in ReadBool(B.adapterObj[a].Discovering)}
  IN {v \in BOOLEAN : IF v THEN \E a \in Range(B.Adapters) : May(a, TRUE)
                      ELSE \A a \in Range(B.Adapters) : May(a, FALSE)}

\* Bluepairy::poweredAdapters from position i on with Result = acc: the
\* results the reads can produce
RECURSIVE filterPowered(_, _, _)
filterPowered(B, i, acc) ==
  IF i > Len(B.Adapters) THEN {acc}
  ELSE UNION {IF p THEN filterPowered(B, i + 1, Append(acc, B.Adapters[i]))
              ELSE filterPowered(B, i + 1, acc) :
                p \in ReadBool(B.adapterObj[B.Adapters[i]].Powered)}

poweredAdapters(B) == filterPowered(B, 1, <<>>)

\* the constructor returns; main calls powerUpAllAdapters
Constructed ==
  /\ pc = "ctor"
  /\ pc' = "powerUpAllAdapters"
  /\ It' = 1
  /\ UNCHANGED <<registry, options, locals, Sent>>

\* powerUpAllAdapters: for (auto Adapter: Adapters) if (!Adapter->isPowered())
\* Adapter->power(true).  With an iterator that a change of Adapters made
\* invalid the behaviour is undefined: a fault, or the loop ends, or it
\* goes on anywhere.
PowerUp ==
  /\ pc = "powerUpAllAdapters"
  /\ \/ /\ It = Invalid
        /\ \/ End("fault")
           \/ /\ pc' = "usableDevices"
              /\ It' = 0
              /\ UNCHANGED <<registry, options, locals, Sent>>
           \/ /\ It' \in 1..Len(Adapters)
              /\ UNCHANGED <<registry, options, locals, pc, Sent>>
     \/ /\ It # Invalid /\ It > Len(Adapters)
        /\ pc' = "usableDevices"
        /\ It' = 0
        /\ UNCHANGED <<registry, options, locals, Sent>>
     \/ /\ It \in 1..Len(Adapters)
        /\ \E p \in ReadBool(adapterObj[Adapters[It]].Powered) :
             IF p THEN /\ It' = It + 1
                       /\ UNCHANGED <<registry, options, locals, pc, Sent>>
             ELSE /\ Adapter' = Adapters[It]
                  /\ pc' = "Adapter.power"
                  /\ UNCHANGED <<registry, options, Device, PairableDevices,
                                 PoweredAdapters, UsableDevices, Future, Sent, It>>

\* Adapter::power: PendingCall.get() has the reply to Set(Powered, true)
PowerReply ==
  /\ pc = "Adapter.power"
  /\ \E reply \in Replies :
       IF reply = "return"
       THEN /\ pc' = "powerUpAllAdapters.readWrite"
            /\ UNCHANGED <<registry, options, locals, Sent, It>>
       ELSE End("terminate")

\* readWrite has no further message and returns
ReadWriteReturns ==
  /\ pc \in ReadWrite \ {"main"}
  /\ pc' = AfterReadWrite[pc]
  /\ Sent' = <<>>
  /\ UNCHANGED <<registry, options, locals, It>>

\* a wait that ignores isPowered()
PowerUpWhile_untilTimeout(elapsed) ==
  /\ pc = "powerUpAllAdapters.while"
  /\ \E p \in ReadBool(adapterObj[Adapter].Powered) :
       IF Adapter_exists(Self, Adapter) /\ ~elapsed
       THEN /\ pc' = "powerUpAllAdapters.readWrite"
            /\ UNCHANGED <<registry, options, locals, Sent, It>>
       ELSE /\ pc' = "powerUpAllAdapters"
            /\ It' = (IF It = Invalid THEN Invalid ELSE It + 1)
            /\ Adapter' = NULL
            /\ UNCHANGED <<options, Device, PairableDevices, PoweredAdapters,
                           UsableDevices, Future, Sent>>
            /\ Collect

\* powerUpAllAdapters: while (Adapter->exists() && !Adapter->isPowered() &&
\* now - StartTime < seconds(1)); elapsed says whether the second is over
PowerUpWhile(elapsed) ==
  /\ pc = "powerUpAllAdapters.while"
  /\ \E p \in ReadBool(adapterObj[Adapter].Powered) :
       IF Adapter_exists(Self, Adapter) /\ ~p /\ ~elapsed
       THEN /\ pc' = "powerUpAllAdapters.readWrite"
            /\ UNCHANGED <<registry, options, locals, Sent, It>>
       ELSE /\ pc' = "powerUpAllAdapters"
            /\ It' = (IF It = Invalid THEN Invalid ELSE It + 1)
            /\ Adapter' = NULL
            /\ UNCHANGED <<options, Device, PairableDevices, PoweredAdapters,
                           UsableDevices, Future, Sent>>
            /\ Collect

\* main: while (Bluetooth.usableDevices().empty())
UsableDevicesEmpty ==
  /\ pc = "usableDevices"
  /\ \E r \in usableDevices(Self) :
       IF r.fault THEN End("fault")
       ELSE /\ pc' = (IF r.list = <<>> THEN "main.readWrite" ELSE "UsableDevices")
            /\ UNCHANGED <<registry, options, locals, Sent, It>>

\* main after readWrite: PairableDevices = pairableDevices(); the loop over
\* them, or isDiscovering() and startDiscovery(), or neither
Candidates ==
  /\ pc = "pairableDevices"
  /\ \E r \in pairableDevices(Self) :
       IF r.fault THEN End("fault")
       ELSE IF r.list # <<>>
       THEN /\ PairableDevices' = r.list
            /\ pc' = "for.PairableDevices"
            /\ UNCHANGED <<registry, options, Adapter, Device, PoweredAdapters,
                           UsableDevices, Future, Sent, It>>
       ELSE \E discovering \in isDiscovering(Self) :
              IF discovering
              THEN /\ pc' = "deadline"
                   /\ UNCHANGED <<registry, options, locals, Sent, It>>
              ELSE /\ PoweredAdapters' \in poweredAdapters(Self)
                   /\ pc' = "startDiscovery"
                   /\ UNCHANGED <<registry, options, Adapter, Device, PairableDevices,
                                  UsableDevices, Future, Sent, It>>

\* main: for (auto Device: PairableDevices) Bluetooth.pair(Device), where
\* Device->pair() sends Pair; after the last Device the block is left
NextCandidate ==
  /\ pc = "for.PairableDevices"
  /\ IF PairableDevices = <<>>
     THEN /\ Device' = NULL
          /\ pc' = "deadline"
          /\ UNCHANGED <<PairableDevices, Future>>
     ELSE /\ Device' = Head(PairableDevices)
          /\ PairableDevices' = Tail(PairableDevices)
          /\ Future' = "pending"
          /\ pc' = "pair.readWrite"
  /\ UNCHANGED <<options, Adapter, PoweredAdapters, UsableDevices, Sent, It>>
  /\ Collect

\* the reply to Pair arrives: Future is ready
PairReply ==
  /\ pc = "pair.readWrite"
  /\ Future = "pending"
  /\ Future' = "ready"
  /\ UNCHANGED <<registry, options, Adapter, Device, PairableDevices,
                 PoweredAdapters, UsableDevices, pc, Sent, It>>

\* main's try block after Bluetooth.pair(Device) got this reply: the place
\* where main goes on
afterPair_trustOnError(reply) ==
  IF reply = "return" \/ catch_BlueZ_Error(throwIfErrorIsSet(reply)) THEN "trust"
  ELSE "terminate"

afterPair(reply) ==
  IF reply = "return" THEN "trust"
  ELSE IF catch_BlueZ_Error(throwIfErrorIsSet(reply)) THEN "for.PairableDevices"
  ELSE "terminate"

\* pair: while (!Future.ready()); then Future.get() with throwIfErrorIsSet
\* on the reply, in main's try block
PairWhile ==
  /\ pc = "pair.while"
  /\ IF Future = "pending"
     THEN /\ pc' = "pair.readWrite"
          /\ UNCHANGED <<registry, options, locals, Sent, It>>
     ELSE \E reply \in Replies :
            IF afterPair(reply) = "terminate" THEN End("terminate")
            ELSE /\ pc' = afterPair(reply)
                 /\ Future' = "none"
                 /\ UNCHANGED <<registry, options, Adapter, Device, PairableDevices,
                                PoweredAdapters, UsableDevices, Sent, It>>

\* trust: if (Device->isTrusted()) return; Device->trust(true)
Trust ==
  /\ pc = "trust"
  /\ \E t \in ReadBool(deviceObj[Device].Trusted) :
       pc' = (IF t THEN "for.PairableDevices" ELSE "Device.trust")
  /\ UNCHANGED <<registry, options, locals, Sent, It>>

\* Device::trust: PendingCall.get() has the reply to Set(Trusted, true)
TrustReply ==
  /\ pc = "Device.trust"
  /\ \E reply \in Replies :
       IF reply = "return" \/ catch_BlueZ_Error(throwIfErrorIsSet(reply))
       THEN /\ pc' = (IF reply = "return" THEN "trust.readWrite"
                      ELSE "for.PairableDevices")
            /\ UNCHANGED <<registry, options, locals, Sent, It>>
       ELSE End("terminate")

\* trust: while (Device->exists() && !Device->isTrusted())
TrustWhile ==
  /\ pc = "trust.while"
  /\ \E t \in ReadBool(deviceObj[Device].Trusted) :
       pc' = (IF Device_exists(Self, Device) /\ ~t THEN "trust.readWrite"
              ELSE "for.PairableDevices")
  /\ UNCHANGED <<registry, options, locals, Sent, It>>

\* startDiscovery: for (auto Adapter: poweredAdapters())
\* if (!Adapter->isDiscovering()) Adapter->startDiscovery()
StartDiscovery ==
  /\ pc = "startDiscovery"
  /\ IF PoweredAdapters = <<>>
     THEN /\ Adapter' = NULL
          /\ pc' = "deadline"
          /\ UNCHANGED PoweredAdapters
     ELSE /\ Adapter' = Head(PoweredAdapters)
          /\ PoweredAdapters' = Tail(PoweredAdapters)
          /\ \E d \in ReadBool(adapterObj[Head(PoweredAdapters)].Discovering) :
               pc' = (IF d THEN "startDiscovery" ELSE "Adapter.startDiscovery")
  /\ UNCHANGED <<options, Device, PairableDevices, UsableDevices, Future, Sent, It>>
  /\ Collect

\* Adapter::startDiscovery: PendingCall.get() has the reply to StartDiscovery
StartDiscoveryReply ==
  /\ pc = "Adapter.startDiscovery"
  /\ \E reply \in Replies :
       IF reply = "return"
       THEN /\ pc' = "startDiscovery.readWrite"
            /\ UNCHANGED <<registry, options, locals, Sent, It>>
       ELSE End("terminate")

\* startDiscovery: while (Adapter->exists() && !Adapter->isDiscovering())
StartDiscoveryWhile ==
  /\ pc = "startDiscovery.while"
  /\ \E d \in ReadBool(adapterObj[Adapter].Discovering) :
       pc' = (IF Adapter_exists(Self, Adapter) /\ ~d THEN "startDiscovery.readWrite"
              ELSE "startDiscovery")
  /\ UNCHANGED <<registry, options, locals, Sent, It>>

\* main: if (now - StartTime > minutes(5)) return EXIT_FAILURE; elapsed
\* says whether the 5 minutes are over
Deadline(elapsed) ==
  /\ pc = "deadline"
  /\ IF elapsed THEN End("EXIT_FAILURE")
     ELSE /\ pc' = "usableDevices"
          /\ UNCHANGED <<registry, options, locals, Sent, It>>

\* main with if (!UsableDevices.empty()) before the loop over UUIDs
Found_connectFirst ==
  /\ pc = "UsableDevices"
  /\ \E r \in usableDevices(Self) :
       IF r.fault THEN End("fault")
       ELSE IF r.list = <<>> THEN End("EXIT_FAILURE")
       ELSE /\ UsableDevices' = r.list
            /\ Device' = (IF Len(r.list) >= 1 THEN r.list[1] ELSE NULL)
            /\ It' = (IF Len(r.list) >= 1 THEN 1 ELSE 0)
            /\ pc' = (IF Len(r.list) >= 1 THEN "for.UUIDs" ELSE "report")
            /\ UNCHANGED <<registry, options, Adapter, PairableDevices,
                           PoweredAdapters, Future, Sent>>

\* main after the loop: auto UsableDevices = Bluetooth.usableDevices()
Found ==
  /\ pc = "UsableDevices"
  /\ \E r \in usableDevices(Self) :
       IF r.fault THEN End("fault")
       ELSE IF r.list = <<>> THEN End("EXIT_FAILURE")
       ELSE /\ UsableDevices' = r.list
            /\ Device' = (IF Len(r.list) = 1 THEN r.list[1] ELSE NULL)
            /\ It' = (IF Len(r.list) = 1 THEN 1 ELSE 0)
            /\ pc' = (IF Len(r.list) = 1 THEN "for.UUIDs" ELSE "report")
            /\ UNCHANGED <<registry, options, Adapter, PairableDevices,
                           PoweredAdapters, Future, Sent>>

\* main: for (auto UUID: UUIDs) Device->connectProfile(UUID)
ConnectProfile ==
  /\ pc = "for.UUIDs"
  /\ pc' = (IF It > Len(UUIDs) THEN "report" ELSE "Device.connectProfile")
  /\ UNCHANGED <<registry, options, locals, Sent, It>>

\* Device::connectProfile: PendingCall.get() has the reply to ConnectProfile
ConnectProfileReply ==
  /\ pc = "Device.connectProfile"
  /\ \E reply \in Replies :
       IF reply = "return"
       THEN /\ pc' = "for.UUIDs"
            /\ It' = It + 1
            /\ UNCHANGED <<registry, options, locals, Sent>>
       ELSE IF catch_BlueZ_Error(throwIfErrorIsSet(reply)) THEN End("EXIT_FAILURE")
       ELSE End("terminate")

\* main: the matches are printed, with Device->adapter()->address() of
\* each, and main returns EXIT_SUCCESS
Report ==
  /\ pc = "report"
  /\ \/ End("EXIT_SUCCESS")
     \/ /\ \E d \in Range(UsableDevices) : deviceObj[d].AdapterPtr = NULL
        /\ End("fault")

\* readWrite pops a message of type error: throwIfErrorIsSet throws out of
\* readWrite, into main's try block if that is where the call came from
ErrorMessage ==
  /\ pc \in ReadWrite \ {"main"}
  /\ \E name \in ErrorReplies :
       IF pc \in {"pair.readWrite", "trust.readWrite"}
          /\ catch_BlueZ_Error(throwIfErrorIsSet(name))
       THEN /\ pc' = "for.PairableDevices"
            /\ Future' = "none"
            /\ Sent' = <<>>
            /\ UNCHANGED <<registry, options, Adapter, Device, PairableDevices,
                           PoweredAdapters, UsableDevices, It>>
       ELSE End("terminate")

Step ==
  \/ Constructed
  \/ PowerUp
  \/ PowerReply
  \/ ReadWriteReturns
  \/ \E elapsed \in BOOLEAN : PowerUpWhile(elapsed)
  \/ UsableDevicesEmpty
  \/ Candidates
  \/ NextCandidate
  \/ PairReply
  \/ PairWhile
  \/ Trust
  \/ TrustReply
  \/ TrustWhile
  \/ StartDiscovery
  \/ StartDiscoveryReply
  \/ StartDiscoveryWhile
  \/ \E elapsed \in BOOLEAN : Deadline(elapsed)
  \/ Found
  \/ ConnectProfile
  \/ ConnectProfileReply
  \/ Report
  \/ ErrorMessage

-----------------------------------------------------------------------------
(* SpecMain: the workflow with one Adapter and one Device.  The daemon      *)
(* announces an Adapter that is off and a Device that is not paired with   *)
(* all their properties at once, and reports that the Adapter is powered,  *)
(* that it is discovering, and that the Device is paired and trusted.      *)

UMain ==
  [Universe({Hci0}, {DevA}, {}, {}, {Hci0, DevA}, {<<>>}, {TRUE}, {"Braille"})
     EXCEPT !.adapterPayloads =
              {<<BoolProp("Powered", FALSE), BoolProp("Discovering", FALSE)>>,
               <<BoolProp("Powered", TRUE)>>,
               <<BoolProp("Discovering", TRUE)>>},
            !.devicePayloads =
              {<<StringProp("Name", Braille), ArrayProp("UUIDs", <<HID>>),
                 PathProp("Adapter", Hci0), BoolProp("Paired", FALSE),
                 BoolProp("Trusted", FALSE)>>,
               <<BoolProp("Paired", TRUE), BoolProp("Trusted", TRUE)>>}]

InitMain == InitOver(UMain)

NextMain ==
  \/ ManagedObject(UMain)
  \/ InterfacesAdded(UMain)
  \/ InterfacesRemoved(UMain)
  \/ PropertiesChanged(UMain)
  \/ Step

SpecMain == InitMain /\ [][NextMain]_vars

\* the registry after the step
SelfAfter ==
  [Adapters |-> Adapters', Devices |-> Devices',
   adapterObj |-> adapterObj', deviceObj |-> deviceObj']

\* C12: for every Adapter and Device object that some pointer still holds,
\* exists() is true exactly if this very object is in the registry; an
\* object that is held and not registered is not registered after the next
\* step either, whatever is registered under its path by then.
C12_ExistsByIdentity ==
  /\ [](/\ \A a \in DOMAIN adapterObj :
             Adapter_exists(Self, a) <=> a \in Range(Adapters)
        /\ \A d \in DOMAIN deviceObj :
             Device_exists(Self, d) <=> d \in Range(Devices))
  /\ [][/\ \A a \in DOMAIN adapterObj \cap DOMAIN adapterObj' :
             ~Adapter_exists(Self, a) => ~Adapter_exists(SelfAfter, a)
        /\ \A d \in DOMAIN deviceObj \cap DOMAIN deviceObj' :
             ~Device_exists(Self, d) => ~Device_exists(SelfAfter, d)]_vars

\* trust waits for a Device that was removed and added again: the Device
\* it holds is not registered, a new one with its path is; and the Adapter
\* of the held Device was replaced in the same way.
C12_Witness ==
  /\ pc = "trust.while"
  /\ ~Device_exists(Self, Device)
  /\ \E d \in Range(Devices) : deviceObj[d].Path = deviceObj[Device].Path
  /\ deviceObj[Device].AdapterPtr # NULL
  /\ ~Adapter_exists(Self, deviceObj[Device].AdapterPtr)
  /\ \E a \in Range(Adapters) :
       adapterObj[a].Path = adapterObj[deviceObj[Device].AdapterPtr].Path

\* the process has ended
Terminated == pc \in Ends

\* C16 (as claimed): the process ends with exit code 0 or with exit code 1,
\* and with 0 exactly when the scan loop was left with a usable Device and,
\* with exactly one, every ConnectProfile was answered with a return.
C16_ExitCodes ==
  [][~Terminated /\ Terminated' =>
       /\ pc' \in {"EXIT_SUCCESS", "EXIT_FAILURE"}
       /\ pc' = "EXIT_SUCCESS" <=>
            /\ pc = "report"
            /\ UsableDevices # <<>>
            /\ Len(UsableDevices) = 1 => It > Len(UUIDs)]_vars

\* the record a wait loop works on is not registered when the loop's
\* condition is checked
WaitTargetEvicted ==
  \/ /\ pc \in {"powerUpAllAdapters.while", "startDiscovery.while"}
     /\ ~Adapter_exists(Self, Adapter)
  \/ /\ pc \in {"pair.while", "trust.while"}
     /\ ~Device_exists(Self, Device)

\* C18 (as claimed): a wait loop whose Adapter or Device was removed does
\* not call readWrite again at its next condition check.
C18_EvictionEndsWait ==
  [][WaitTargetEvicted => pc' \notin ReadWrite]_vars

\* C19 (as claimed): whatever the reply to Pair is, main goes on with trust
\* or with the next candidate Device.
C19_PairErrorNeverAborts ==
  [][pc = "pair.while" /\ Future = "ready" =>
       pc' \in {"trust", "for.PairableDevices"}]_vars

\* C20 (as claimed): whatever the reply to the power-on request is,
\* powerUpAllAdapters goes on, with the wait for this Adapter or with the
\* next Adapter.
C20_PowerErrorSkipsAdapter ==
  [][pc = "Adapter.power" =>
       pc' \in {"powerUpAllAdapters.readWrite", "powerUpAllAdapters"}]_vars

-----------------------------------------------------------------------------
(* SpecMainFair: the workflow when the program keeps running and time      *)
(* passes.  A call that blocks for its reply returns (with the reply or    *)
(* with the error of the library's reply timeout), readWrite returns, and  *)
(* a clock that is compared again and again is past its limit at last.     *)
(* Nothing is assumed of the daemon: no reply to Pair and no signal has to *)
(* arrive.                                                                 *)

SpecMainFair ==
  /\ SpecMain
  /\ WF_vars(Step)
  /\ SF_vars(PowerUpWhile(TRUE))
  /\ SF_vars(Deadline(TRUE))

\* C17 (as claimed): every run of the workflow ends.
C17_WorkflowTerminates == <>Terminated

-----------------------------------------------------------------------------
(* SpecPair: the workflow with one Adapter and two Devices.  The Adapter   *)
(* is announced powered and discovering; a Device is announced not paired, *)
(* with both profiles, and reported paired and trusted later; the second   *)
(* Device can be removed.  The command line asks for PNP and --hid.        *)

UPair ==
  [Universe({Hci0}, {DevA, DevB}, {}, {}, {DevB}, {<<PNP>>}, {TRUE}, {"Braille"})
     EXCEPT !.adapterPayloads =
              {<<BoolProp("Powered", TRUE), BoolProp("Discovering", TRUE)>>},
            !.devicePayloads =
              {<<StringProp("Name", Braille), ArrayProp("UUIDs", <<HID, PNP>>),
                 PathProp("Adapter", Hci0), BoolProp("Paired", FALSE),
                 BoolProp("Trusted", FALSE)>>,
               <<BoolProp("Paired", TRUE), BoolProp("Trusted", TRUE)>>}]

InitPair == InitOver(UPair)

NextPair ==
  \/ ManagedObject(UPair)
  \/ InterfacesAdded(UPair)
  \/ InterfacesRemoved(UPair)
  \/ PropertiesChanged(UPair)
  \/ Step

SpecPair == InitPair /\ [][NextPair]_vars

\* the steps that send a request to the daemon
IssuesPower == pc = "powerUpAllAdapters" /\ pc' = "Adapter.power"
IssuesPair == pc = "for.PairableDevices" /\ pc' = "pair.readWrite"
IssuesTrust == pc = "trust" /\ pc' = "Device.trust"
IssuesStartDiscovery == pc = "startDiscovery" /\ pc' = "Adapter.startDiscovery"
IssuesConnectProfile == pc = "for.UUIDs" /\ pc' = "Device.connectProfile"

\* the elements of v, each once
IsSetOf(v, S) == Range(v) = S /\ NoRepeat(v)

\* C21 (as claimed): ConnectProfile is sent only when the usable Devices
\* computed after the scan loop are exactly one, to that Device, once for
\* each UUID of the Expected Profile Set; when they are two or more, no
\* ConnectProfile is sent, all of them are reported and main returns
\* EXIT_SUCCESS.
C21_ConnectOnlySingleMatch ==
  [][/\ IssuesConnectProfile =>
          /\ Len(UsableDevices) = 1
          /\ Device = UsableDevices[1]
          /\ It \in 1..Len(UUIDs)
          /\ IsSetOf(UUIDs, Range(ExpectedUUIDs))
     /\ (pc = "Device.connectProfile" /\ pc' = "for.UUIDs") => It' = It + 1
     /\ (pc = "for.UUIDs" /\ ~IssuesConnectProfile) =>
          (It = Len(UUIDs) + 1 /\ pc' = "report")
     /\ (pc = "UsableDevices" /\ ~Terminated') =>
          /\ Len(UsableDevices') = 1 => (pc' = "for.UUIDs" /\ It' = 1)
          /\ Len(UsableDevices') >= 2 => pc' = "report"
     /\ (pc = "report" /\ Len(UsableDevices) >= 2) => pc' = "EXIT_SUCCESS"]_vars

\* Two Devices are registered, one of them is usable, and the second
\* ConnectProfile is sent to it.
C21_Witness ==
  /\ pc = "Device.connectProfile"
  /\ It = 2
  /\ Len(Devices) = 2
  /\ UsableDevices = <<Device>>

\* powerUpAllAdapters begins and no Adapter is registered
StartsWithoutAdapter == pc = "powerUpAllAdapters" /\ It = 1 /\ Adapters = <<>>

\* C22 (as claimed): in a run that begins without an Adapter no Pair is
\* ever sent, and main does not return EXIT_SUCCESS.
C22_NoAdapterNoPairing ==
  [](StartsWithoutAdapter => [](pc \notin {"pair.readWrite", "EXIT_SUCCESS"}))

\* one Adapter is registered and reports powered, and one Device, which is
\* on this Adapter, is paired and matches the pattern and the profiles
OneUsableDevice ==
  /\ Len(Adapters) = 1
  /\ adapterObj[Adapters[1]].Powered = "true"
  /\ Len(Devices) = 1
  /\ deviceObj[Devices[1]].AdapterPtr = Adapters[1]
  /\ deviceObj[Devices[1]].Paired = "true"
  /\ nameMatches(deviceObj[Devices[1]].Name)
  /\ OffersExpected(Devices[1])

\* C23: with one Adapter, registered since the start, and one paired and
\* matching Device on it, once the Adapter reports powered the wait of
\* powerUpAllAdapters ends, the loop over the Adapters ends, the condition
\* of the scan loop is false at once, and the usable Devices computed after
\* the loop are this Device.  The way does not pass a place where Pair,
\* Set(Trusted) or StartDiscovery is sent.
C23_PairedDeviceFoundAtOnce ==
  [][(OneUsableDevice /\ It # Invalid) =>
       /\ (pc = "powerUpAllAdapters.while" /\ Adapter = Adapters[1]) =>
            (pc' = "powerUpAllAdapters" /\ It' = 2)
       /\ (pc = "powerUpAllAdapters" /\ It = 2) => pc' = "usableDevices"
       /\ pc = "usableDevices" => pc' = "UsableDevices"
       /\ pc = "UsableDevices" =>
            /\ pc' = "for.UUIDs"
            /\ UsableDevices' = Devices
            /\ Device' = Devices[1]]_vars

\* The wait for the only Adapter, which was asked to power on, sees that
\* it reports powered, and the only Device is paired and matches.
C23_Witness ==
  /\ pc = "powerUpAllAdapters.while"
  /\ It = 1
  /\ Adapter = Adapters[1]
  /\ OneUsableDevice

\* C24 (as claimed): Set(Powered, true) is sent only to an Adapter that
\* is not powered when the loop visits it; the wait ends at the first
\* evaluation of its condition at which the Adapter reports powered or is
\* not registered (or the second is over); and after the wait the loop
\* goes on: it visits the next Adapter or ends.
C24_PowerUpWait ==
  [][/\ IssuesPower =>
          /\ It \in 1..Len(Adapters)
          /\ Adapter' = Adapters[It]
          /\ adapterObj[Adapter'].Powered # "true"
     /\ (/\ pc = "powerUpAllAdapters.while"
         /\ \/ ~Adapter_exists(Self, Adapter)
            \/ adapterObj[Adapter].Powered = "true") => pc' = "powerUpAllAdapters"
     /\ pc = "powerUpAllAdapters" =>
          /\ pc' \in {"powerUpAllAdapters", "Adapter.power", "usableDevices"}
          /\ pc' = "powerUpAllAdapters" => It' = It + 1
          /\ pc' = "usableDevices" => It = Len(Adapters) + 1]_vars

\* d is usable: its adapter is powered, it is paired, and it matches the
\* pattern and the profiles
IsUsable(d) ==
  /\ deviceObj[d].AdapterPtr # NULL
  /\ adapterObj[deviceObj[d].AdapterPtr].Powered = "true"
  /\ deviceObj[d].Paired = "true"
  /\ nameMatches(deviceObj[d].Name)
  /\ OffersExpected(d)

SomeDeviceUsable == \E d \in Range(Devices) : IsUsable(d)

\* C25 (as claimed): while a registered Device is usable, no Pair, no
\* Set(Trusted) and no StartDiscovery is sent.  (These requests are sent
\* without a pump in between from the registry that the last pump left.)
C25_NoRequestOnceUsable ==
  [][SomeDeviceUsable => ~(IssuesPair \/ IssuesTrust \/ IssuesStartDiscovery)]_vars

\* C26: main goes on to trust only from a Pair that was answered with a
\* method return, never from one answered with an error, and with the same
\* Device; Set(Trusted, true) is sent only from there and only if the
\* Device does not report trusted; the wait that follows ends at the first
\* evaluation of its condition at which the Device reports trusted or is
\* not registered, and goes on while it is registered and reports not
\* trusted.
C26_TrustAfterPair ==
  /\ [](\A reply \in Replies : afterPair(reply) = "trust" <=> reply = "return")
  /\ [][/\ pc' = "trust" =>
              (pc = "pair.while" /\ Future = "ready" /\ Device' = Device)
        /\ pc' = "Device.trust" =>
              /\ pc = "trust"
              /\ Device' = Device
              /\ deviceObj[Device].Trusted # "true"
        /\ (pc = "trust" /\ deviceObj[Device].Trusted = "true") =>
              pc' = "for.PairableDevices"
        /\ (/\ pc = "trust.while"
            /\ \/ deviceObj[Device].Trusted = "true"
               \/ ~Device_exists(Self, Device)) => pc' = "for.PairableDevices"
        /\ (/\ pc = "trust.while"
            /\ deviceObj[Device].Trusted = "false"
            /\ Device_exists(Self, Device)) => pc' = "trust.readWrite"]_vars

\* After Pair and Set(Trusted, true) the wait sees the Device, still
\* registered, report trusted.
C26_Witness ==
  /\ pc = "trust.while"
  /\ Device_exists(Self, Device)
  /\ deviceObj[Device].Paired = "true"
  /\ deviceObj[Device].Trusted = "true"

-----------------------------------------------------------------------------
(* SpecScan: the workflow with two Adapters and one Device.  The daemon     *)
(* announces the Adapters powered and not discovering, and reports that an *)
(* Adapter lost power and that it is discovering.                          *)

UScan ==
  [Universe({Hci0, Hci1}, {DevA}, {}, {}, {DevA}, {<<>>}, {TRUE}, {"Braille"})
     EXCEPT !.adapterPayloads =
              {<<BoolProp("Powered", TRUE), BoolProp("Discovering", FALSE)>>,
               <<BoolProp("Powered", FALSE)>>,
               <<BoolProp("Discovering", TRUE)>>},
            !.devicePayloads =
              {<<StringProp("Name", Braille), ArrayProp("UUIDs", <<HID>>),
                 PathProp("Adapter", Hci0), BoolProp("Paired", FALSE),
                 BoolProp("Trusted", FALSE)>>,
               <<BoolProp("Paired", TRUE), BoolProp("Trusted", TRUE)>>}]

InitScan == InitOver(UScan)

NextScan ==
  \/ ManagedObject(UScan)
  \/ InterfacesAdded(UScan)
  \/ InterfacesRemoved(UScan)
  \/ PropertiesChanged(UScan)
  \/ Step

SpecScan == InitScan /\ [][NextScan]_vars

IsPairable(d) ==
  /\ deviceObj[d].AdapterPtr # NULL
  /\ adapterObj[deviceObj[d].AdapterPtr].Powered = "true"
  /\ deviceObj[d].Paired # "true"
  /\ nameMatches(deviceObj[d].Name)
  /\ OffersExpected(d)

SomeDevicePairable == \E d \in Range(Devices) : IsPairable(d)

\* C27 (as claimed): main enters startDiscovery() only from an evaluation
\* of pairableDevices() at which no registered Device is pairable and no
\* powered Adapter reports discovering, in an iteration that began with no
\* usable Device; and the Adapter that StartDiscovery is sent to reports
\* powered and does not report discovering when the request is sent.
C27_StartDiscoveryOnlyWhenIdle ==
  [][/\ pc' = "startDiscovery" /\ pc \notin {"startDiscovery", "startDiscovery.while"} =>
          /\ pc = "pairableDevices"
          /\ ~SomeDevicePairable
          /\ \A a \in Range(Adapters) :
                ~(adapterObj[a].Powered = "true" /\ adapterObj[a].Discovering = "true")
     /\ pc' = "pairableDevices" => pc = "main.readWrite"
     /\ pc' = "main.readWrite" /\ pc # "main.readWrite" =>
          pc = "usableDevices" /\ ~SomeDeviceUsable
     /\ IssuesStartDiscovery =>
          /\ adapterObj[Adapter'].Powered = "true"
          /\ adapterObj[Adapter'].Discovering # "true"]_vars

\* C28 (as claimed): when the reply to ConnectProfile is not a method
\* return, the process ends with exit code 1 at once: no further
\* ConnectProfile is sent and nothing is reported.
C28_ConnectErrorIsFailure ==
  [][(pc = "Device.connectProfile" /\ pc' \notin {pc, "for.UUIDs"}) =>
       pc' = "EXIT_FAILURE"]_vars

\* the places where main calls usableDevices() or pairableDevices()
FilterPlaces == {"usableDevices", "pairableDevices", "UsableDevices"}

\* C29 (as claimed): where main computes the usable or the pairable set,
\* every registered Device has an Adapter, so that Device->adapter(), which
\* both filters dereference first for every Device, is never null.
C29_DevicesHaveAdapter ==
  pc \in FilterPlaces => \A d \in Range(Devices) : deviceObj[d].AdapterPtr # NULL

\* C30 (as claimed): Pair is sent only to a Device that is registered and
\* does not report paired when the request is sent, which a Device that is
\* still registered and still pairable is.
C30_PairOnlyStillPairable ==
  [][IssuesPair =>
       (Device_exists(Self, Device') /\ deviceObj[Device'].Paired # "true")]_vars

-----------------------------------------------------------------------------
(* SpecOrder: the workflow with one Adapter and one Device that stays      *)
(* announced.  The Device is announced not paired, trusted or not, and the *)
(* daemon reports Paired and Trusted in notifications of their own, at any *)
(* time before or after its reply to Pair.                                 *)

UOrder ==
  [Universe({Hci0}, {DevA}, {}, {}, {Hci0}, {<<>>}, {TRUE}, {"Braille"})
     EXCEPT !.adapterPayloads =
              {<<BoolProp("Powered", FALSE), BoolProp("Discovering", FALSE)>>,
               <<BoolProp("Powered", TRUE)>>,
               <<BoolProp("Discovering", TRUE)>>},
            !.devicePayloads =
              {<<StringProp("Name", Braille), ArrayProp("UUIDs", <<HID>>),
                 PathProp("Adapter", Hci0), BoolProp("Paired", FALSE),
                 BoolProp("Trusted", FALSE)>>,
               <<StringProp("Name", Braille), ArrayProp("UUIDs", <<HID>>),
                 PathProp("Adapter", Hci0), BoolProp("Paired", FALSE),
                 BoolProp("Trusted", TRUE)>>,
               <<BoolProp("Paired", TRUE)>>,
               <<BoolProp("Trusted", TRUE)>>}]

InitOrder == InitOver(UOrder)

NextOrder ==
  \/ ManagedObject(UOrder)
  \/ InterfacesAdded(UOrder)
  \/ InterfacesRemoved(UOrder)
  \/ PropertiesChanged(UOrder)
  \/ Step

SpecOrder == InitOrder /\ [][NextOrder]_vars

SpecOrderFair ==
  /\ SpecOrder
  /\ WF_vars(Step)
  /\ SF_vars(PowerUpWhile(TRUE))
  /\ SF_vars(Deadline(TRUE))

\* Bluetooth.pair(Device) returned for the Device at Path: its Pair was
\* answered with a method return
PairSucceeded(Path) == pc = "trust" /\ deviceObj[Device].Path = Path

\* Pair was sent to the Device at Path and Bluetooth.pair waits for the reply
PairRequested(Path) == pc = "pair.readWrite" /\ deviceObj[Device].Path = Path

\* C31 (as claimed): once a Pair for a Device was answered with a method
\* return, Pair is never sent to that Device again.
C31_NoSecondPair ==
  \A Path \in {DevA, DevB} : [](PairSucceeded(Path) => [](~PairRequested(Path)))

====
